---- MODULE Spec2Model ----
(***************************************************************************)
(* Model of JsonpMixin (src/jsonp-mixin.js): one <vo-jsonp> element, its   *)
(* configuration properties, its in-flight requests, the scripts it        *)
(* injects into the document and the callbacks it registers on window.     *)
(*                                                                         *)
(* Every handler of the element runs to completion (the browser is         *)
(* single-threaded), so one action is one handler.  A request object is    *)
(* identified by the order of its creation: request i is requests[i].      *)
(*                                                                         *)
(* Left out: the sync property, which only sets script.async, and          *)
(* debounceDuration, the length of the debounce window; the debounce job   *)
(* is modelled by the timers it has armed.                                 *)
(***************************************************************************)
EXTENDS Integers, Sequences, FiniteSets, TLC

\* Bounds of the model.
MaxRequests == 2        \* requests generateRequest may create in one run
MaxConfigChanges == 1   \* property assignments after construction

\* `undefined` for the properties that hold a request, a payload or an event.
Undefined == 0


\* ---------------------------------------------------------------------
\* Values
\* ---------------------------------------------------------------------

\* _newGuid(true): 32 hexadecimal digits drawn from Math.random.  The model
\* draws from two outcomes, each standing for one such string.
Guids == {"0a", "1b"}
_newGuid(g) == g

\* The default of callbackValue: 'vo_jsonp_callback_' + this._newGuid(true).
DefaultCallbackValue(g) == "vo_jsonp_callback_" \o _newGuid(g)

\* /^vo_jsonp_callback_[0-9a-f]{32}$/.test(value)
IsGeneratedName(value) == \E g \in Guids : value = DefaultCallbackValue(g)

\* Values a caller assigns to the properties.
Urls == {"", "https://api.example.com/data"}
CallbackKeys == {"callback", ""}
CallerCallbackValues == {"", "myCallback"}
CallbackValues == CallerCallbackValues \cup {DefaultCallbackValue(g) : g \in Guids}

\* A params object is the sequence of its own properties in insertion order.
CallerParams == { <<>>, << [key |-> "q", val |-> "a b"] >> }

\* JavaScript truthiness of a string.
Truthy(str) == str # ""

\* encodeURIComponent: the characters outside A-Z a-z 0-9 - _ . ! ~ * ' ( )
\* are percent-encoded; of the values of the model only "a b" holds one.
encodeURIComponent(str) == IF str = "a b" THEN "a%20b" ELSE str

\* ---------------------------------------------------------------------
\* Objects as ordered property lists
\* ---------------------------------------------------------------------

HasKey(obj, key) == \E i \in 1..Len(obj) : obj[i].key = key

\* obj[key] = val: an existing property keeps its place, a new one is appended.
SetKey(obj, key, val) ==
    IF HasKey(obj, key)
    THEN [i \in 1..Len(obj) |->
            IF obj[i].key = key THEN [key |-> key, val |-> val] ELSE obj[i]]
    ELSE Append(obj, [key |-> key, val |-> val])

\* ---------------------------------------------------------------------
\* The getters _queryString, _requestUrl, _requestOptions
\* ---------------------------------------------------------------------

\* The first statement pair of _queryString: params[callbackKey] = callbackValue
\* unless the key is falsy.  (An undefined key would pass the test too; the
\* keys of the model are strings.)
ParamsWithCallback(ps, key, value) ==
    IF Truthy(key) THEN SetKey(ps, key, value) ELSE ps

\* The second statement of _queryString: params._ = guid unless cache.
ParamsWithToken(ps, cacheFlag, g) ==
    IF ~cacheFlag THEN SetKey(ps, "_", _newGuid(g)) ELSE ps

\* this.params as _queryString leaves it: the getter writes into the very
\* object the params property holds.
ParamsAfterQueryString(ps, key, value, cacheFlag, g) ==
    ParamsWithToken(ParamsWithCallback(ps, key, value), cacheFlag, g)

\* Object.keys(params).reduce(...).join('&'): the pairs key=encoded value, in
\* the order of the keys; the model keeps the joined string as its pairs.
JoinPairs(ps) ==
    [i \in 1..Len(ps) |-> [key |-> ps[i].key, val |-> encodeURIComponent(ps[i].val)]]

_queryString(ps, key, value, cacheFlag, g) ==
    JoinPairs(ParamsAfterQueryString(ps, key, value, cacheFlag, g))

\* queryString ? url + '?' + queryString : url
_requestUrl(u, queryString) == [url |-> u, query |-> queryString]

\* The sync flag, which only sets script.async, is not part of the model.
_requestOptions(cacheFlag, key, value, requestUrl) ==
    [cache |-> cacheFlag, callbackKey |-> key, callbackValue |-> value,
     url |-> requestUrl]

\* ---------------------------------------------------------------------
\* State
\* ---------------------------------------------------------------------

VARIABLES
    \* the configuration properties of the element
    url, params, callbackKey, callbackValue, cache, auto,
    \* the read-only properties
    activeRequests, loading, lastAborted, lastRequest, lastResponse,
    lastError, lastLoad,
    \* this._debounceJob: the timers that are armed, each named by the run of
    \* the observer that armed it (0 at construction, k at the k-th assignment)
    _debounceJob,
    \* every Request object created so far; request i is requests[i]
    requests,
    \* window[name]: the request _handleResponse is bound to, or Undefined
    window,
    \* the requests whose script element is a child of <head>
    head,
    \* the browser's progress with each script: "fetching", then "executed"
    \* and "loaded", or "failed"
    fetch,
    \* the call just made: its operation, its target and how it ended, the
    \* events it dispatched, and the window and <head> it passed through
    \* between its statements (generateRequest: after line 350)
    call, emitted, midway,
    \* history: `complete` events dispatched for each request, the requests
    \* abortRequest was called on while active, the requests whose script
    \* invoked a registered callback, how often each request left the active
    \* set, the params object as the caller last assigned it, and the
    \* property assignments made
    completes, aborted, delivered, removals, configured, configChanges

config == <<url, params, callbackKey, callbackValue, cache, auto>>
readOnly == <<activeRequests, loading, lastAborted, lastRequest, lastResponse,
              lastError, lastLoad>>
dom == <<requests, window, head>>
history == <<completes, aborted, delivered, removals, configured>>
vars == <<config, readOnly, _debounceJob, dom, fetch, call, emitted, midway,
          history, configChanges>>

Call(op, target, result) == [op |-> op, target |-> target, result |-> result]

\* new CustomEvent(type) handed to dispatchEvent: `about` is the request the
\* handler was working on, `detail` what the event object carries.
Event(type, about, detail) == [type |-> type, about |-> about, detail |-> detail]

IndexOf(seq, x) ==
    IF \E i \in 1..Len(seq) : seq[i] = x
    THEN (CHOOSE i \in 1..Len(seq) : seq[i] = x /\ \A j \in 1..(i - 1) : seq[j] # x) - 1
    ELSE -1

\* Array.prototype.splice(index, 1) on a zero-based index.
Splice(seq, index) ==
    [i \in 1..(Len(seq) - 1) |-> IF i <= index THEN seq[i] ELSE seq[i + 1]]

\* The state after construction: the property defaults, with url, auto and
\* callback-value as the constructor's options or the markup give them (or
\* leave them); the observer has run once, so the debounce timer is armed.
Init ==
    /\ url \in Urls
    /\ params = <<>>
    /\ configured = <<>>
    /\ callbackKey = "callback"
    /\ callbackValue \in CallbackValues \ {""}
    /\ cache = FALSE
    /\ auto \in BOOLEAN
    /\ activeRequests = <<>>
    /\ loading = FALSE
    /\ lastAborted = FALSE
    /\ lastRequest = Undefined
    /\ lastResponse = Undefined
    /\ lastError = Undefined
    /\ lastLoad = Undefined
    /\ _debounceJob = {0}
    /\ requests = <<>>
    /\ window = [name \in CallbackValues |-> Undefined]
    /\ head = {}
    /\ fetch = <<>>
    /\ call = Call("constructor", Undefined, "ok")
    /\ emitted = <<>>
    /\ midway = <<>>
    /\ completes = <<>>
    /\ aborted = {}
    /\ delivered = {}
    /\ removals = <<>>
    /\ configChanges = 0

\* ---------------------------------------------------------------------
\* Property assignments and the debounced observer
\* ---------------------------------------------------------------------

\* _requestOptionsChanged without handing this._debounceJob to debounce: the
\* timer armed before is not cancelled.
_requestOptionsChanged_NoCancel(run) == _debounceJob' = _debounceJob \cup {run}

\* _requestOptionsChanged: Debouncer.debounce, given this._debounceJob, cancels
\* the job's pending timer and arms a new one.
_requestOptionsChanged(run) == _debounceJob' = {run}

\* What every assignment to a configuration property does besides storing the
\* value: the observer runs, and nothing else of the element changes.
PropertySet(name) ==
    /\ configChanges < MaxConfigChanges
    /\ configChanges' = configChanges + 1
    /\ _requestOptionsChanged(configChanges + 1)
    /\ call' = Call(name, Undefined, "ok")
    /\ emitted' = <<>>
    /\ midway' = <<>>
    /\ configured' = IF name = "params" THEN params' ELSE configured
    /\ UNCHANGED <<readOnly, dom, fetch, completes, aborted, delivered, removals>>

SetUrl ==
    \E v \in Urls \ {url} :
        /\ url' = v
        /\ PropertySet("url")
        /\ UNCHANGED <<params, callbackKey, callbackValue, cache, auto>>

\* A new params object replaces the old one with everything written into it.
SetParams ==
    \E v \in CallerParams \ {params} :
        /\ params' = v
        /\ PropertySet("params")
        /\ UNCHANGED <<url, callbackKey, callbackValue, cache, auto>>

SetCallbackKey ==
    \E v \in CallbackKeys \ {callbackKey} :
        /\ callbackKey' = v
        /\ PropertySet("callbackKey")
        /\ UNCHANGED <<url, params, callbackValue, cache, auto>>

SetCallbackValue ==
    \E v \in CallerCallbackValues \ {callbackValue} :
        /\ callbackValue' = v
        /\ PropertySet("callbackValue")
        /\ UNCHANGED <<url, params, callbackKey, cache, auto>>

SetCache ==
    /\ cache' = ~cache
    /\ PropertySet("cache")
    /\ UNCHANGED <<url, params, callbackKey, callbackValue, auto>>

SetAuto ==
    /\ auto' = ~auto
    /\ PropertySet("auto")
    /\ UNCHANGED <<url, params, callbackKey, callbackValue, cache>>

\* ---------------------------------------------------------------------
\* generateRequest
\* ---------------------------------------------------------------------

\* ConfigurationError with the url guard forgotten.
ConfigurationError_NoUrlGuard ==
    cache /\ (IsGeneratedName(callbackValue) \/ ~Truthy(callbackValue))

\* The two guards that throw before anything is touched.
ConfigurationError ==
    \/ cache /\ (IsGeneratedName(callbackValue) \/ ~Truthy(callbackValue))
    \/ ~Truthy(url)

\* generateRequest throwing: no statement after the guards has run.
generateRequestThrows ==
    /\ emitted' = <<>>
    /\ midway' = <<>>
    /\ UNCHANGED <<config, readOnly, dom, fetch, history>>

\* generateRequestMarks leaving lastAborted as it is.
generateRequestMarks_KeepsLastAborted(request) ==
    /\ loading' = TRUE
    /\ lastAborted' = lastAborted
    /\ lastRequest' = request
    /\ activeRequests' = Append(activeRequests, request)

\* _setLoading(true), _setLastAborted(false), _setLastRequest(request) and
\* activeRequests.push(request).
generateRequestMarks(request) ==
    /\ loading' = TRUE
    /\ lastAborted' = FALSE
    /\ lastRequest' = request
    /\ activeRequests' = Append(activeRequests, request)

\* Midway with the script appended before the callback is registered.
Midway_AppendFirst(request) ==
    [window |-> window, head |-> head \cup {request}]

\* window and <head> between the registration of the callback and
\* appendChild: the handler is on window, the script is not yet in <head>.
Midway(request) ==
    [window |-> [window EXCEPT ![callbackValue] = request], head |-> head]

\* The body of generateRequest after the guards.  _requestOptions and
\* _requestUrl each evaluate _queryString, so _newGuid runs twice when cache is
\* unset: g1 goes into options.url, g2 into script.src, and both evaluations
\* write into this.params.
generateRequestIssues(g1, g2) ==
    LET request == Len(requests) + 1
        options == _requestOptions(cache, callbackKey, callbackValue,
                       _requestUrl(url,
                           _queryString(params, callbackKey, callbackValue, cache, g1)))
        params1 == ParamsAfterQueryString(params, callbackKey, callbackValue, cache, g1)
        script == [src |-> _requestUrl(url,
                              _queryString(params1, callbackKey, callbackValue, cache, g2))]
    IN  /\ generateRequestMarks(request)
        /\ requests' = Append(requests,
               [loading |-> TRUE, options |-> options, script |-> script])
        /\ params' = ParamsAfterQueryString(params1, callbackKey, callbackValue, cache, g2)
        /\ midway' = << Midway(request) >>
        /\ window' = Midway(request).window
        /\ head' = Midway(request).head \cup {request}
        /\ fetch' = Append(fetch, "fetching")
        /\ emitted' = << Event("sent", request, Undefined) >>
        /\ completes' = Append(completes, 0)
        /\ removals' = Append(removals, 0)
        /\ UNCHANGED <<url, callbackKey, callbackValue, cache, auto,
                       lastResponse, lastError, lastLoad, aborted, delivered,
                       configured>>

\* A caller invokes generateRequest().
GenerateRequest ==
    /\ IF ConfigurationError
       THEN /\ generateRequestThrows
            /\ call' = Call("generateRequest", Undefined, "throw")
       ELSE /\ Len(requests) < MaxRequests
            /\ \E g1, g2 \in Guids : generateRequestIssues(g1, g2)
            /\ call' = Call("generateRequest", Len(requests) + 1, "ok")
    /\ UNCHANGED <<_debounceJob, configChanges>>

\* The debounce timer fires: the callback of _requestOptionsChanged runs
\* generateRequest when auto is set and swallows what it throws.
DebounceFires ==
    /\ \E timer \in _debounceJob : _debounceJob' = _debounceJob \ {timer}
    /\ IF ~auto
       THEN /\ emitted' = <<>>
            /\ midway' = <<>>
            /\ call' = Call("debounce", Undefined, "ok")
            /\ UNCHANGED <<config, readOnly, dom, fetch, history>>
       ELSE IF ConfigurationError
       THEN /\ generateRequestThrows
            /\ call' = Call("debounce", Undefined, "caught")
       ELSE /\ Len(requests) < MaxRequests
            /\ \E g1, g2 \in Guids : generateRequestIssues(g1, g2)
            /\ call' = Call("debounce", Len(requests) + 1, "ok")
    /\ UNCHANGED configChanges

\* ---------------------------------------------------------------------
\* _cleanupRequest, _discardRequest, abortRequest
\* ---------------------------------------------------------------------

\* this.activeRequests.filter(r => r.loading)
LoadingRequests(reqs, active) == SelectSeq(active, LAMBDA r : reqs[r].loading)

\* LoadingAfterCleanup with the filter forgotten: every cleanup clears the flag.
LoadingAfterCleanup_NoFilter(reqs, active, flag) == FALSE

\* The aggregate flag as _cleanupRequest leaves it: reqs already holds the
\* request marked not loading, active still holds the request.
LoadingAfterCleanup(reqs, active, flag) ==
    IF Len(LoadingRequests(reqs, active)) = 0 THEN FALSE ELSE flag

\* _cleanupRequest(request).  delete window[this.callbackValue] reads the
\* property as it is now, not as it was when the request was made.
_cleanupRequest(request) ==
    LET requestIndex == IndexOf(activeRequests, request)
        marked == [requests EXCEPT ![request].loading = FALSE]
    IN  IF requestIndex >= 0
        THEN /\ requests' = marked
             /\ loading' = LoadingAfterCleanup(marked, activeRequests, loading)
             /\ activeRequests' = Splice(activeRequests, requestIndex)
             /\ window' = [window EXCEPT ![callbackValue] = Undefined]
             /\ head' = head \ {request}
             /\ removals' = [removals EXCEPT ![request] = @ + 1]
        ELSE UNCHANGED <<requests, loading, activeRequests, window, head, removals>>

\* _discardRequest(request): cleanup, then dispatchEvent(new CustomEvent('complete')),
\* whether or not the cleanup found the request.
_discardRequest(request) ==
    /\ _cleanupRequest(request)
    /\ completes' = [completes EXCEPT ![request] = @ + 1]

\* AbortTarget falling back to the last active request whenever its argument
\* is not an active request.
AbortTarget_Fallback(arg) ==
    IF (arg = Undefined \/ IndexOf(activeRequests, arg) < 0) /\ Len(activeRequests) > 0
    THEN activeRequests[Len(activeRequests)]
    ELSE arg

\* AbortTarget taking the oldest active request when no argument is given.
AbortTarget_First(arg) ==
    IF arg = Undefined /\ Len(activeRequests) > 0
    THEN activeRequests[1]
    ELSE arg

\* The request abortRequest works on: its argument, or the last active request
\* when none is given.
AbortTarget(arg) ==
    IF arg = Undefined /\ Len(activeRequests) > 0
    THEN activeRequests[Len(activeRequests)]
    ELSE arg

\* The condition under which abortRequest calls _setLastAborted(true).
AbortMarksLast(request) ==
    request # Undefined /\ IndexOf(activeRequests, request) = Len(activeRequests) - 1

\* A caller invokes abortRequest(arg): arg is a request made earlier, or
\* Undefined for a call without argument.
AbortRequest(arg) ==
    LET request == AbortTarget(arg)
    IN  /\ lastAborted' = IF AbortMarksLast(request) THEN TRUE ELSE lastAborted
        /\ _cleanupRequest(request)
        /\ aborted' = IF IndexOf(activeRequests, request) >= 0
                      THEN aborted \cup {request} ELSE aborted
        /\ call' = Call("abortRequest", arg, "ok")
        /\ emitted' = <<>>
        /\ midway' = <<>>
        /\ UNCHANGED <<config, lastRequest, lastResponse, lastError, lastLoad,
                       _debounceJob, fetch, completes, delivered, configured,
                       configChanges>>

\* ---------------------------------------------------------------------
\* _handleResponse, _handleError, _handleLoad
\* ---------------------------------------------------------------------

_handleResponse(request, data) ==
    /\ lastResponse' = data
    /\ lastError' = Undefined
    /\ _discardRequest(request)
    /\ emitted' = << Event("response", request, Undefined),
                     Event("complete", request, Undefined) >>

\* _handleError without _setLastResponse(undefined).
_handleError_KeepsResponse(request, event) ==
    /\ lastResponse' = lastResponse
    /\ lastError' = event
    /\ _discardRequest(request)
    /\ emitted' = << Event("error", request, Undefined),
                     Event("complete", request, Undefined) >>

_handleError(request, event) ==
    /\ lastResponse' = Undefined
    /\ lastError' = event
    /\ _discardRequest(request)
    /\ emitted' = << Event("error", request, Undefined),
                     Event("complete", request, Undefined) >>

\* _handleLoad without _setLastLoad(event).
_handleLoad_NoRecord(request, event) ==
    /\ lastLoad' = lastLoad
    /\ emitted' = << Event("load", request, Undefined) >>

_handleLoad(request, event) ==
    /\ lastLoad' = event
    /\ emitted' = << Event("load", request, Undefined) >>

\* ---------------------------------------------------------------------
\* The browser
\* ---------------------------------------------------------------------
\* A script element that was appended keeps being fetched and run, and keeps
\* its onload/onerror handlers, after removeChild took it out of <head>.  The
\* payload script s delivers and the events fired at script s are named s.

\* The function name script s calls: the callback value its request was made
\* with.
CallbackNameOf(s) == requests[s].options.callbackValue

\* The script of request s arrives and runs name(payload).  window[name] is
\* whatever is registered under the name at that moment; with nothing
\* registered the call fails inside the script and no handler runs.
ScriptExecutes(s) ==
    /\ fetch[s] = "fetching"
    /\ fetch' = [fetch EXCEPT ![s] = "executed"]
    /\ midway' = <<>>
    /\ IF window[CallbackNameOf(s)] # Undefined
       THEN /\ _handleResponse(window[CallbackNameOf(s)], s)
            /\ delivered' = delivered \cup {s}
            /\ call' = Call("callback", s, "ok")
       ELSE /\ emitted' = <<>>
            /\ call' = Call("callback", s, "not a function")
            /\ UNCHANGED <<lastResponse, lastError, requests, loading,
                           activeRequests, window, head, removals, completes,
                           delivered>>
    /\ UNCHANGED <<config, lastAborted, lastRequest, lastLoad, _debounceJob,
                   aborted, configured, configChanges>>

\* The load event of script s, fired once the script has run.
ScriptLoads(s) ==
    /\ fetch[s] = "executed"
    /\ fetch' = [fetch EXCEPT ![s] = "loaded"]
    /\ midway' = <<>>
    /\ _handleLoad(s, s)
    /\ call' = Call("onload", s, "ok")
    /\ UNCHANGED <<config, activeRequests, loading, lastAborted, lastRequest,
                   lastResponse, lastError, _debounceJob, dom, history,
                   configChanges>>

\* The error event of script s, fired when the fetch fails.
ScriptFails(s) ==
    /\ fetch[s] = "fetching"
    /\ fetch' = [fetch EXCEPT ![s] = "failed"]
    /\ midway' = <<>>
    /\ _handleError(s, s)
    /\ call' = Call("onerror", s, "ok")
    /\ UNCHANGED <<config, lastAborted, lastRequest, lastLoad, _debounceJob,
                   aborted, delivered, configured, configChanges>>

\* ---------------------------------------------------------------------
\* Specification
\* ---------------------------------------------------------------------

Made == 1..Len(requests)

Next ==
    \/ SetUrl
    \/ SetParams
    \/ SetCallbackKey
    \/ SetCallbackValue
    \/ SetCache
    \/ SetAuto
    \/ DebounceFires
    \/ GenerateRequest
    \/ \E arg \in {Undefined} \cup Made : AbortRequest(arg)
    \/ \E s \in Made : ScriptExecutes(s)
    \/ \E s \in Made : ScriptLoads(s)
    \/ \E s \in Made : ScriptFails(s)

Spec == Init /\ [][Next]_vars

\* ---------------------------------------------------------------------
\* Properties
\* ---------------------------------------------------------------------

InActive(r) == IndexOf(activeRequests, r) >= 0

\* Whether a query string holds the pair key=value.
HasPair(query, key, value) ==
    \E i \in 1..Len(query) : query[i].key = key /\ query[i].val = value

\* C1: the aggregate loading flag is true exactly when some request of the
\* active set has its own loading flag set.
C1_LoadingIffSomeActiveLoading ==
    loading <=> \E i \in 1..Len(activeRequests) : requests[activeRequests[i]].loading

\* Two requests were made, one has left the active set, the other is still
\* loading.
C1_Witness ==
    /\ Len(requests) = 2
    /\ Len(activeRequests) = 1
    /\ \E r \in Made : removals[r] = 1
    /\ loading

\* Request r was made with the generated callback value, the case in which the
\* element, not the caller, answers for the callback names.
MadeWithGeneratedName(r) == IsGeneratedName(requests[r].options.callbackValue)

\* C2: once the script of request R has delivered its payload by calling the
\* registered callback, R is not in activeRequests (stated for the requests
\* made with the generated callback value).
C2_DeliveredRequestLeftActiveSet ==
    \A r \in delivered : MadeWithGeneratedName(r) => ~InActive(r)

\* C3: two requests that are active together, both made with a generated
\* callback value, have different callback names.
C3_ActiveGeneratedNamesDiffer ==
    \A i, j \in 1..Len(activeRequests) :
        LET a == requests[activeRequests[i]].options.callbackValue
            b == requests[activeRequests[j]].options.callbackValue
        IN  (i # j /\ IsGeneratedName(a) /\ IsGeneratedName(b)) => a # b

\* C4: a request that finished through a response or a script error has had
\* exactly one `complete`, and no request ever has more than one (stated for
\* the requests made with the generated callback value).
C4_CompleteExactlyOnce ==
    \A r \in Made :
        MadeWithGeneratedName(r) =>
            /\ completes[r] <= 1
            /\ (removals[r] = 1 /\ r \notin aborted) => completes[r] = 1

\* C5: no `complete` is ever dispatched for a request that was aborted.
C5_NoCompleteAfterAbort ==
    \A r \in aborted : completes[r] = 0

\* The request a call abortRequest(arg) targets, read off the state before
\* the call.
C6_Target(arg) ==
    IF arg = Undefined
    THEN IF Len(activeRequests) > 0 THEN activeRequests[Len(activeRequests)] ELSE Undefined
    ELSE arg

C6_IsMostRecentActive(r) ==
    Len(activeRequests) > 0 /\ activeRequests[Len(activeRequests)] = r

\* C6: abortRequest leaves lastAborted as it was unless its target is the
\* most recently issued request of the active set.
C6_AbortOfOtherTargetKeepsLastAborted ==
    [][ (call'.op = "abortRequest" /\ ~C6_IsMostRecentActive(C6_Target(call'.target)))
            => lastAborted' = lastAborted ]_vars

\* C7: generateRequest with an empty url, or with cache set and an empty or
\* generated callback value, throws and changes nothing: the active set, the
\* requests, the scripts in <head>, the registered callbacks, the read-only
\* properties and the configuration stay as they were and no event is
\* dispatched.
C7_ConfigurationErrorChangesNothing ==
    [][ (/\ call'.op = "generateRequest"
         /\ \/ url = ""
            \/ cache /\ (callbackValue = "" \/ IsGeneratedName(callbackValue)))
            => /\ call'.result = "throw"
               /\ emitted' = <<>>
               /\ UNCHANGED <<config, readOnly, dom, fetch, history>> ]_vars

\* generateRequest has just thrown on cache with a generated callback value,
\* while a request was in flight.
C7_Witness ==
    /\ call.op = "generateRequest"
    /\ call.result = "throw"
    /\ url # ""
    /\ cache
    /\ IsGeneratedName(callbackValue)
    /\ Len(activeRequests) > 0
    /\ loading

\* C8: every request leaves the active set, and leaves it once: no request
\* has left it twice, and when every script that was injected has called its
\* callback or raised its error (so that no answer is still to come), no
\* request is left in the active set (stated for the requests made with the
\* generated callback value).
C8_AnsweredRequestRemovedOnce ==
    \A r \in Made :
        MadeWithGeneratedName(r) =>
            /\ removals[r] <= 1
            /\ (\A s \in Made : fetch[s] # "fetching")
                   => (~InActive(r) /\ removals[r] = 1)

\* The parameter names under which a callback pair travels.
CallbackParamNames == {key \in CallbackKeys : Truthy(key)}

\* C9: the query string of a request just made holds every parameter the
\* caller configured, and holds the callback pair exactly when the callback
\* key is not the empty string.
C9_QueryHoldsParamsAndCallbackPair ==
    [][ Len(requests') = Len(requests) + 1
            => LET query == requests'[Len(requests')].script.src.query
               IN  /\ \A i \in 1..Len(configured) :
                          HasPair(query, configured[i].key,
                                  encodeURIComponent(configured[i].val))
                   /\ Truthy(callbackKey)
                          => HasPair(query, callbackKey, encodeURIComponent(callbackValue))
                   /\ ~Truthy(callbackKey)
                          => \A key \in CallbackParamNames : ~HasKey(query, key) ]_vars

\* C10: the query string of a request holds the token parameter `_` exactly
\* when the request was made with the cache flag unset.
C10_TokenIffNotCached ==
    \A r \in Made :
        HasKey(requests[r].script.src.query, "_") <=> ~requests[r].options.cache

\* C11: at most one debounce timer is armed at any time, and a timer that
\* fires is the one armed by the last configuration change and leaves none
\* armed: the changes made while a timer is armed cause one run of the
\* debounce callback, after the window of the last of them.
C11_OneTimerFiresAfterLastChange ==
    /\ [](Cardinality(_debounceJob) <= 1)
    /\ [][ call'.op = "debounce"
               => /\ _debounceJob \ _debounceJob' = {configChanges}
                  /\ _debounceJob' = {} ]_vars

\* The timer armed at construction was cancelled by an assignment to
\* callbackKey, and the timer armed by that assignment has fired and made the
\* first request.
C11_Witness ==
    /\ call.op = "debounce"
    /\ call.target = 1
    /\ Len(requests) = 1
    /\ configChanges = 1
    /\ callbackKey = ""
    /\ _debounceJob = {}

\* C12: every `sent` and every `complete` event carries the request it is
\* about, every `response` event the payload delivered, every `error` event
\* the error event of the script.
C12_EventsCarryTheirSubject ==
    \A i \in 1..Len(emitted) :
        LET e == emitted[i]
        IN  /\ e.type \in {"sent", "complete"} => e.detail = e.about
            /\ e.type = "response" => e.detail = lastResponse
            /\ e.type = "error" => e.detail = lastError

\* C13: abortRequest on a request that is not in the active set returns
\* normally, emits nothing and leaves the active set, the loading flag of
\* every request, the aggregate loading flag, the registered callbacks and
\* the attached scripts as they were.
C13_AbortOfInactiveRequestChangesNothing ==
    [][ ( /\ call'.op = "abortRequest"
          /\ call'.target # Undefined
          /\ ~InActive(call'.target) )
        => /\ call'.result = "ok"
           /\ emitted' = <<>>
           /\ UNCHANGED <<activeRequests, requests, loading, window, head>> ]_vars

\* abortRequest(1) has run after request 1 had completed and left the active
\* set, while request 2 is in flight.
C13_Witness ==
    /\ call.op = "abortRequest"
    /\ call.target = 1
    /\ 1 \notin aborted
    /\ removals[1] = 1
    /\ ~InActive(1)
    /\ activeRequests = <<2>>
    /\ requests[2].loading
    /\ window[requests[2].options.callbackValue] = 2
    /\ head = {2}
    /\ emitted = <<>>

\* C14: abortRequest without argument removes the last request of the active
\* set and no other; with an empty active set it changes nothing and emits
\* nothing.
C14_AbortWithoutArgumentRemovesLastActive ==
    [][ ( call'.op = "abortRequest" /\ call'.target = Undefined )
        => IF Len(activeRequests) > 0
           THEN /\ activeRequests' = SubSeq(activeRequests, 1, Len(activeRequests) - 1)
                /\ \A r \in Made :
                       removals'[r] = removals[r]
                           + (IF r = activeRequests[Len(activeRequests)] THEN 1 ELSE 0)
                /\ emitted' = <<>>
           ELSE /\ emitted' = <<>>
                /\ UNCHANGED <<config, readOnly, _debounceJob, dom, fetch, history,
                               configChanges>> ]_vars

\* abortRequest() has taken request 2 out of the active set <<1, 2>>.
C14_Witness ==
    /\ call.op = "abortRequest"
    /\ call.target = Undefined
    /\ Len(requests) = 2
    /\ activeRequests = <<1>>
    /\ aborted = {2}
    /\ removals = <<0, 1>>

\* C15: when a request is removed from the active set, nothing is registered
\* any more under the callback value of its options and its script is out of
\* the document.
C15_RemovalDeregistersOwnCallback ==
    [][ \A r \in Made :
            removals'[r] > removals[r]
            => /\ window'[requests[r].options.callbackValue] = Undefined
               /\ r \notin head' ]_vars

\* C16: generateRequest registers the callback bound to the new request
\* before it appends the request's script: in no state the call passes
\* through or ends in is the script in the document while window does not
\* hold that callback under the request's callback value.
C16_CallbackRegisteredBeforeScriptAttached ==
    (call.op \in {"generateRequest", "debounce"} /\ call.target # Undefined)
    => LET request == call.target
           name == requests[request].options.callbackValue
       IN  /\ Len(midway) = 1
           /\ request \in midway[1].head => midway[1].window[name] = request
           /\ request \in head
           /\ window[name] = request

\* Request 2 has been issued: between the two statements its callback was
\* on window, replacing nothing or another request's, and its script was not
\* yet in <head>, where the script of request 1 was.
C16_Witness ==
    /\ call.op = "generateRequest"
    /\ call.target = 2
    /\ Len(midway) = 1
    /\ midway[1].window[requests[2].options.callbackValue] = 2
    /\ midway[1].head = {1}
    /\ head = {1, 2}

\* C17: after a generateRequest that does not throw, the returned request is
\* the last of the active set and is loading, the aggregate loading flag is
\* set, lastAborted is false, lastRequest is the returned request, and the
\* call dispatched exactly one `sent` event.
C17_IssuedRequestIsLastActiveAndLoading ==
    (call.op \in {"generateRequest", "debounce"} /\ call.target # Undefined)
    => /\ call.target \in Made
       /\ Len(activeRequests) > 0
       /\ activeRequests[Len(activeRequests)] = call.target
       /\ requests[call.target].loading
       /\ loading
       /\ ~lastAborted
       /\ lastRequest = call.target
       /\ Cardinality({i \in 1..Len(emitted) : emitted[i].type = "sent"}) = 1

\* generateRequest has returned request 2 after request 1 was aborted as the
\* most recent request, which had set lastAborted.
C17_Witness ==
    /\ call.op = "generateRequest"
    /\ call.result = "ok"
    /\ call.target = 2
    /\ aborted = {1}
    /\ activeRequests = <<2>>
    /\ ~lastAborted

\* C18: the load event of a script sets lastLoad and dispatches one `load`
\* event and changes nothing else: the active set, every request's loading
\* flag, the aggregate loading flag, lastResponse, lastError, lastAborted,
\* the registered callbacks and the attached scripts stay as they were.
C18_LoadOnlyRecordsLastLoad ==
    [][ call'.op = "onload"
        => /\ lastLoad' = call'.target
           /\ emitted' = << Event("load", call'.target, Undefined) >>
           /\ UNCHANGED <<config, activeRequests, requests, loading, lastRequest,
                          lastResponse, lastError, lastAborted, window, head>> ]_vars

\* The load event of a script has been handled whose request is still in the
\* active set and loading.
C18_Witness ==
    /\ call.op = "onload"
    /\ InActive(call.target)
    /\ requests[call.target].loading
    /\ loading
    /\ lastLoad = call.target
    /\ emitted = << Event("load", call.target, Undefined) >>

\* C19: the url of a request's options is the src of the script injected for
\* the request.
C19_OptionsUrlIsScriptSrc ==
    \A r \in Made : requests[r].options.url = requests[r].script.src

\* C20: lastResponse and lastError are never both set.
C20_NotBothResponseAndError ==
    ~(lastResponse # Undefined /\ lastError # Undefined)

\* A script error has been handled after an earlier payload had been
\* recorded as lastResponse.
C20_Witness ==
    /\ call.op = "onerror"
    /\ delivered # {}
    /\ lastError = call.target
    /\ lastResponse = Undefined

====
